---- MODULE Spec2Model ----
(***************************************************************************)
(* A model of git-client-rust: the object model (object.rs, parser.rs),    *)
(* the local object store (main.rs), the pack decoder (pack.rs) and the    *)
(* protocol client (remote.rs).                                            *)
(*                                                                         *)
(* Bytes are the integers 0..255, byte strings are sequences of them, and  *)
(* a Rust String is the sequence of its UTF-8 bytes.  Positions are        *)
(* 0-based as in the source; Slice(b, from, to) is &b[from..to].           *)
(*                                                                         *)
(* A GitResult is a record [tag, val, msg]: tag "ok" carries the value in  *)
(* val; tag "err" is Err(GitError(..)) with the message kind in msg and    *)
(* the value the message names in val; tag "panic" is an abort of the      *)
(* thread (slice or index out of range, arithmetic overflow).              *)
(***************************************************************************)
EXTENDS Integers, Sequences, FiniteSets, TLC

VARIABLES
    o_pc, o_in, o_enc, o_dec,            \* the object model run on one input
    s_objects, s_dirs, s_files, s_log,   \* the object store of one root
    d_pc, d_prog, d_base, d_delta,       \* one call of apply_delta: its inputs,
    d_i, d_res, d_target, d_result,      \* its locals and what it returns
    n_response,                          \* the body of the upload-pack response
    f_result,                            \* what fetch_ref returns
    p_src, p_kinds,                      \* what the pack was built from
    p_checks,                            \* the build checks arithmetic overflow
    p_pc, p_pack, p_count, p_i,          \* parse_pack: position, argument, locals
    p_content_by_sha, p_sha_by_byte_offset,
    p_read,                              \* entries read by the loop so far
    p_exit,                              \* where parse_pack returned from
    p_result,                            \* what parse_pack returns
    c_objects, c_done, c_result,         \* clone: pack_objects, written, outcome
    r_fmt, r_entries,                    \* what the discovery response was built from
    r_pc, r_body, r_lines, r_refs,       \* get_refs: position, body, lines left, refs
    r_result,                            \* what get_refs returns
    t_pc, t_in, t_out,                   \* Object::content on one object
    q_pc, q_ofs, q_start,                \* an offset-delta entry: offset bytes, start
    q_obj, q_result,                     \* what read_pack_object and the arm give
    x_pc, x_base, x_delta, x_i, x_res,   \* apply_delta on a raw delta buffer
    x_target, x_result,
    x_last,                              \* the last instruction it parsed
    y_pc, y_type, y_p, y_result          \* a pack entry's payload and its registration

objVars == <<o_pc, o_in, o_enc, o_dec>>

storeVars == <<s_objects, s_dirs, s_files, s_log>>

deltaVars == <<d_pc, d_prog, d_base, d_delta, d_i, d_res, d_target, d_result>>

packVars ==
    <<n_response, f_result, p_src, p_kinds, p_checks, p_pc, p_pack, p_count, p_i,
      p_content_by_sha, p_sha_by_byte_offset, p_read, p_exit, p_result,
      c_objects, c_done, c_result>>

refsVars == <<r_fmt, r_entries, r_pc, r_body, r_lines, r_refs, r_result>>

renderVars == <<t_pc, t_in, t_out>>

ofsVars == <<q_pc, q_ofs, q_start, q_obj, q_result>>

rawVars == <<x_pc, x_base, x_delta, x_i, x_res, x_target, x_result, x_last>>

payloadVars == <<y_pc, y_type, y_p, y_result>>

firstVars == <<objVars, storeVars, deltaVars, packVars, refsVars>>

laterVars == <<renderVars, ofsVars, rawVars, payloadVars>>

vars == <<firstVars, laterVars>>

notObj == <<storeVars, deltaVars, packVars, refsVars, laterVars>>

notStore == <<objVars, deltaVars, packVars, refsVars, laterVars>>

notDelta == <<objVars, storeVars, packVars, refsVars, laterVars>>

\* the clone command writes to the store
notPack == <<objVars, deltaVars, refsVars, laterVars>>

notRefs == <<objVars, storeVars, deltaVars, packVars, laterVars>>

notRender == <<firstVars, ofsVars, rawVars, payloadVars>>

notOfs == <<firstVars, renderVars, rawVars, payloadVars>>

notRaw == <<firstVars, renderVars, ofsVars, payloadVars>>

notPayload == <<firstVars, renderVars, ofsVars, rawVars>>

----------------------------------------------------------------------------
(* Results *)

Ok(v) == [tag |-> "ok", val |-> v, msg |-> ""]

Err(m, v) == [tag |-> "err", val |-> v, msg |-> m]

Panic == [tag |-> "panic", val |-> <<>>, msg |-> ""]

None == [tag |-> "none", val |-> <<>>, msg |-> ""]

IsOk(r) == r.tag = "ok"

IsErr(r) == r.tag = "err"

IsPanic(r) == r.tag = "panic"

----------------------------------------------------------------------------
(* Byte strings *)

SP == 32

NUL == 0

LF == 10

LT == 60

GT == 62

CR == 13

ShaLen == 20

blobTok == <<98, 108, 111, 98>>

treeTok == <<116, 114, 101, 101>>

commitTok == <<99, 111, 109, 109, 105, 116>>

parentTok == <<112, 97, 114, 101, 110, 116>>

authorTok == <<97, 117, 116, 104, 111, 114>>

committerTok == <<99, 111, 109, 109, 105, 116, 116, 101, 114>>

MinOf(S) == CHOOSE x \in S : \A y \in S : x <= y

\* &b[from..to]; the caller checks from <= to <= Len(b), as the slice panics otherwise
Slice(b, from, to) == SubSeq(b, from + 1, to)

\* &b[from..]
SliceFrom(b, from) == SubSeq(b, from + 1, Len(b))

\* iter().position(|&x| x == d): the 0-based index of the first d, or -1
Position(b, d) ==
    LET S == {k \in 1..Len(b) : b[k] = d}
    IN IF S = {} THEN -1 ELSE MinOf(S) - 1

\* iter().position(|&x| x < 128)
PositionLow(b) ==
    LET S == {k \in 1..Len(b) : b[k] < 128}
    IN IF S = {} THEN -1 ELSE MinOf(S) - 1

take_until(bytes, delimiter) ==
    LET p == Position(bytes, delimiter)
    IN IF p = -1 THEN bytes ELSE Slice(bytes, 0, p)

\* std::str::from_utf8: well-formed 1- to 4-byte sequences, by lead byte
RECURSIVE IsUtf8(_)
IsUtf8(b) ==
    IF b = <<>> THEN TRUE
    ELSE LET c == b[1]
             n == IF c < 128 THEN 1
                  ELSE IF c >= 194 /\ c <= 223 THEN 2
                  ELSE IF c >= 224 /\ c <= 239 THEN 3
                  ELSE IF c >= 240 /\ c <= 244 THEN 4
                  ELSE 0
         IN /\ n > 0
            /\ Len(b) >= n
            /\ \A k \in 2..n : b[k] >= 128 /\ b[k] <= 191
            /\ IsUtf8(SubSeq(b, n + 1, Len(b)))

parse_string_until(bytes, delimiter) ==
    LET byte_vec == take_until(bytes, delimiter)
    IN IF IsUtf8(byte_vec) THEN Ok(byte_vec) ELSE Err("utf8", byte_vec)

\* char::is_whitespace on the one-byte code points
IsWhite(c) == c \in {9, 10, 11, 12, 13, 32}

RECURSIVE trim_end(_)
trim_end(s) ==
    IF s # <<>> /\ IsWhite(s[Len(s)]) THEN trim_end(SubSeq(s, 1, Len(s) - 1)) ELSE s

\* usize / u64 Display
RECURSIVE to_string(_)
to_string(n) ==
    IF n < 10 THEN <<48 + n>> ELSE Append(to_string(n \div 10), 48 + (n % 10))

RECURSIVE DigitsValue(_)
DigitsValue(s) ==
    IF s = <<>> THEN 0 ELSE DigitsValue(SubSeq(s, 1, Len(s) - 1)) * 10 + (s[Len(s)] - 48)

\* str::parse::<usize>() and ::<u64>(): an optional '+', then one or more digits
\* (the values of the model stay far below the overflow error)
parse_uint(s) ==
    LET body == IF s # <<>> /\ s[1] = 43 THEN Tail(s) ELSE s
    IN IF body = <<>> \/ \E k \in 1..Len(body) : body[k] \notin 48..57
       THEN Err("parse_int", s)
       ELSE Ok(DigitsValue(body))

----------------------------------------------------------------------------
(* object.rs: hashing *)

\* the digest of the bytes lo..hi: each byte weighted by its position
RECURSIVE ShaFold(_, _, _)
ShaFold(b, lo, hi) ==
    IF lo > hi THEN 0
    ELSE IF lo = hi THEN (b[lo] + 1) * (1 + ((lo * 7919) % 65521))
    ELSE (ShaFold(b, lo, (lo + hi) \div 2) + ShaFold(b, (lo + hi) \div 2 + 1, hi))
         % 16777213

\* Sha1::digest: a deterministic 20-byte digest of the bytes.  SHA-1 itself is
\* replaced by a positional digest, which has no collision on the objects of
\* the model.
get_sha(string) ==
    LET h == (ShaFold(string, 1, Len(string)) + 7 * Len(string)) % 16777213
    IN [k \in 1..ShaLen |->
          IF k = 1 THEN h % 256
          ELSE IF k = 2 THEN (h \div 256) % 256
          ELSE IF k = 3 THEN (h \div 65536) % 256
          ELSE (h + k) % 256]

HexDigit(n) == IF n < 10 THEN 48 + n ELSE 87 + n

\* format!("{:02x}") per byte
to_hex(bytes) ==
    [k \in 1..(2 * Len(bytes)) |->
        IF k % 2 = 1 THEN HexDigit(bytes[(k + 1) \div 2] \div 16)
        ELSE HexDigit(bytes[k \div 2] % 16)]

----------------------------------------------------------------------------
(* object.rs: the object model *)

Blob(bytes) == [kind |-> "blob", bytes |-> bytes]

Tree(refs) == [kind |-> "tree", refs |-> refs]

Commit(tree, parents, author, committer, message) ==
    [kind |-> "commit", tree |-> tree, parents |-> parents, author |-> author,
     committer |-> committer, message |-> message]

ObjectReference(mode, name, hash) == [mode |-> mode, name |-> name, hash |-> hash]

Contributor(name, email, timestamp, timezone) ==
    [name |-> name, email |-> email, timestamp |-> timestamp, timezone |-> timezone]

RECURSIVE TreeContent(_)
TreeContent(refs) ==
    IF refs = <<>> THEN <<>>
    ELSE to_string(refs[1].mode) \o <<SP>> \o refs[1].name \o <<NUL>> \o refs[1].hash
         \o TreeContent(Tail(refs))

RECURSIVE ParentLines(_)
ParentLines(parents) ==
    IF parents = <<>> THEN <<>>
    ELSE parentTok \o <<SP>> \o parents[1] \o <<LF>> \o ParentLines(Tail(parents))

\* format!("{} <{}> {} {}\n", name, email, timestamp, timezone)
ContributorLine(c) ==
    c.name \o <<SP, LT>> \o c.email \o <<GT, SP>> \o to_string(c.timestamp)
    \o <<SP>> \o c.timezone \o <<LF>>

CommitContent(o) ==
    treeTok \o <<SP>> \o o.tree \o <<LF>>
    \o ParentLines(o.parents)
    \o authorTok \o <<SP>> \o ContributorLine(o.author)
    \o committerTok \o <<SP>> \o ContributorLine(o.committer)
    \o <<LF>> \o o.message

\* the payload after the "<type> <len>\0" header
Payload(o) ==
    IF o.kind = "blob" THEN o.bytes
    ELSE IF o.kind = "tree" THEN TreeContent(o.refs)
    ELSE CommitContent(o)

TypeTok(o) ==
    IF o.kind = "blob" THEN blobTok ELSE IF o.kind = "tree" THEN treeTok ELSE commitTok

\* Object::encode, the canonical bytes (second component of the pair)
encode_bytes(o) ==
    TypeTok(o) \o <<SP>> \o to_string(Len(Payload(o))) \o <<NUL>> \o Payload(o)

\* Object::encode, the hash (first component of the pair)
encode_sha(o) == get_sha(encode_bytes(o))

\* Object::decode_blob
decode_blob(bytes) == Ok(Blob(bytes))

\* Object::decode_tree, one entry from its name (read at i1) on
RECURSIVE decode_tree_from(_, _, _)
tree_entry(bytes, i1, mode, name, refs) ==
    IF IsErr(name) THEN name
    ELSE LET i2 == i1 + Len(name.val) + 1
         IN IF i2 + ShaLen > Len(bytes) THEN Panic
            ELSE decode_tree_from(bytes, i2 + ShaLen,
                    Append(refs, ObjectReference(mode, name.val,
                                                 Slice(bytes, i2, i2 + ShaLen))))

\* Object::decode_tree: the loop from position i with the entries read so far
decode_tree_from(bytes, i, refs) ==
    IF i >= Len(bytes) THEN Ok(Tree(refs))
    ELSE
      LET mode_bytes == take_until(SliceFrom(bytes, i), SP)
          i1 == i + Len(mode_bytes) + 1
      IN IF ~IsUtf8(mode_bytes) THEN Err("utf8", mode_bytes)
         ELSE IF IsErr(parse_uint(mode_bytes)) THEN parse_uint(mode_bytes)
         ELSE IF i1 > Len(bytes) THEN Panic
         ELSE tree_entry(bytes, i1, parse_uint(mode_bytes).val,
                         parse_string_until(SliceFrom(bytes, i1), NUL), refs)

decode_tree(bytes) == decode_tree_from(bytes, 0, <<>>)

\* parser::parse_contributor, the timezone, read at position i
contributor_timezone(name, email, timestamp, i, timezone) ==
    IF IsErr(timezone) THEN timezone
    ELSE Ok([consumed |-> i + Len(timezone.val) + 1,
             contributor |-> Contributor(name, email, timestamp, timezone.val)])

\* parser::parse_contributor, the timestamp, read at position i
contributor_timestamp(bytes, name, email, i, timestamp_bytes) ==
    IF IsErr(timestamp_bytes) THEN timestamp_bytes
    ELSE LET i3 == i + Len(timestamp_bytes.val) + 1
         IN IF IsErr(parse_uint(timestamp_bytes.val)) THEN parse_uint(timestamp_bytes.val)
            ELSE IF i3 > Len(bytes) THEN Panic
            ELSE contributor_timezone(name, email, parse_uint(timestamp_bytes.val).val, i3,
                                      parse_string_until(SliceFrom(bytes, i3), LF))

\* parser::parse_contributor, the email, read at position i
contributor_email(bytes, name, i, email) ==
    IF IsErr(email) THEN email
    ELSE LET i2 == i + Len(email.val) + 2
         IN IF i2 > Len(bytes) THEN Panic
            ELSE contributor_timestamp(bytes, name, email.val, i2,
                                       parse_string_until(SliceFrom(bytes, i2), SP))

\* parser::parse_contributor, the name: the text before '<', trimmed at its end;
\* the cursor moves by the length of the trimmed name and 2
contributor_name(bytes, raw) ==
    IF IsErr(raw) THEN raw
    ELSE LET i1 == Len(trim_end(raw.val)) + 2
         IN IF i1 > Len(bytes) THEN Panic
            ELSE contributor_email(bytes, trim_end(raw.val), i1,
                                   parse_string_until(SliceFrom(bytes, i1), GT))

\* parser::parse_contributor: Ok([consumed, contributor]), an error or a panic
parse_contributor(bytes) == contributor_name(bytes, parse_string_until(bytes, LT))

\* Object::decode_commit, the parent loop: Ok([i, parents]), an error or a panic
RECURSIVE decode_parents(_, _, _)
decode_parents(bytes, i, parents) ==
    IF i + 6 > Len(bytes) THEN Panic
    ELSE IF Slice(bytes, i, i + 6) # parentTok THEN Ok([i |-> i, parents |-> parents])
    ELSE IF i + 7 > Len(bytes) THEN Panic
    ELSE
      LET parent == parse_string_until(SliceFrom(bytes, i + 7), LF)
      IN IF IsErr(parent) THEN parent
         ELSE decode_parents(bytes, i + 7 + Len(parent.val) + 1,
                             Append(parents, parent.val))

\* Object::decode_commit, the message, after the committer read at position i
commit_message(bytes, tree, parents, author, i, committer_result) ==
    IF ~IsOk(committer_result) THEN committer_result
    ELSE LET im == i + committer_result.val.consumed + 1
         IN IF im > Len(bytes) THEN Panic
            ELSE IF ~IsUtf8(SliceFrom(bytes, im)) THEN Err("utf8", SliceFrom(bytes, im))
            ELSE Ok(Commit(tree, parents, author, committer_result.val.contributor,
                           SliceFrom(bytes, im)))

\* Object::decode_commit, the committer, after the author read at position i
commit_committer(bytes, tree, parents, i, author_result) ==
    IF ~IsOk(author_result) THEN author_result
    ELSE LET ia == i + author_result.val.consumed + 10
         IN IF ia > Len(bytes) THEN Panic
            ELSE commit_message(bytes, tree, parents, author_result.val.contributor, ia,
                                parse_contributor(SliceFrom(bytes, ia)))

\* Object::decode_commit, the author, after the parent lines
commit_author(bytes, tree, ps) ==
    IF ~IsOk(ps) THEN ps
    ELSE IF ps.val.i + 7 > Len(bytes) THEN Panic
    ELSE commit_committer(bytes, tree, ps.val.parents, ps.val.i + 7,
                          parse_contributor(SliceFrom(bytes, ps.val.i + 7)))

\* Object::decode_commit, the parent lines, after the tree line
commit_parents(bytes, tree) ==
    IF IsErr(tree) THEN tree
    ELSE commit_author(bytes, tree.val, decode_parents(bytes, 5 + Len(tree.val) + 1, <<>>))

\* Object::decode_commit
decode_commit(bytes) ==
    IF 5 > Len(bytes) THEN Panic
    ELSE commit_parents(bytes, parse_string_until(SliceFrom(bytes, 5), LF))

\* Object::decode, the branch taken: which decoder the header selects
decode_dispatch(bytes) ==
    IF Position(bytes, NUL) = -1 THEN "no_nul"
    ELSE IF Len(bytes) < 4 THEN "panic"
    ELSE IF Slice(bytes, 0, 4) = blobTok THEN "blob"
    ELSE IF Slice(bytes, 0, 4) = treeTok THEN "tree"
    ELSE IF Len(bytes) < 6 THEN "panic"
    ELSE IF Slice(bytes, 0, 6) = commitTok THEN "commit"
    ELSE "unsupported"

\* Object::decode
decode(bytes) ==
    LET i == Position(bytes, NUL) + 1
        branch == decode_dispatch(bytes)
    IN IF branch = "no_nul" THEN Err("no_nul", <<>>)
       ELSE IF branch = "panic" THEN Panic
       ELSE IF branch = "blob" THEN decode_blob(SliceFrom(bytes, i))
       ELSE IF branch = "tree" THEN decode_tree(SliceFrom(bytes, i))
       ELSE IF branch = "commit" THEN decode_commit(SliceFrom(bytes, i))
       ELSE LET tok == parse_string_until(bytes, SP)
            IN IF IsErr(tok) THEN tok ELSE Err("unsupported", tok.val)

\* Object::content on a Tree with the mode written as it is, without padding
RECURSIVE content_tree_unpadded(_)
content_tree_unpadded(refs) ==
    IF refs = <<>> THEN <<>>
    ELSE to_string(refs[1].mode) \o <<SP>>
         \o (IF to_string(refs[1].mode)[1] = 49 THEN blobTok ELSE treeTok)
         \o <<SP>> \o to_hex(refs[1].hash) \o <<SP, SP, SP, SP>> \o refs[1].name \o <<LF>>
         \o content_tree_unpadded(Tail(refs))

\* format!("{:0>6}", mode): '0's before the digits up to a width of 6
pad_mode(digits) ==
    IF Len(digits) >= 6 THEN digits ELSE [k \in 1..(6 - Len(digits)) |-> 48] \o digits

\* Object::content on a Tree: "{:0>6} {} {}    {}" and '\n' per entry, the type
\* "blob" when the mode's decimal text starts with '1'
RECURSIVE content_tree(_)
content_tree(refs) ==
    IF refs = <<>> THEN <<>>
    ELSE pad_mode(to_string(refs[1].mode)) \o <<SP>>
         \o (IF to_string(refs[1].mode)[1] = 49 THEN blobTok ELSE treeTok)
         \o <<SP>> \o to_hex(refs[1].hash) \o <<SP, SP, SP, SP>> \o refs[1].name \o <<LF>>
         \o content_tree(Tail(refs))

\* Object::content (the name content is taken by parameters below)
object_content(o) ==
    IF o.kind = "blob"
    THEN (IF IsUtf8(o.bytes) THEN Ok(o.bytes) ELSE Err("utf8", o.bytes))
    ELSE IF o.kind = "tree" THEN Ok(content_tree(o.refs))
    ELSE Ok(CommitContent(o))

----------------------------------------------------------------------------
(* zlib.rs: the codec.  A stream is the two header bytes CMF = 0x78 and FLG *)
(* (with CMF * 256 + FLG a multiple of 31), then stored blocks, each a      *)
(* final flag, a length byte and that many bytes.  The header check, the    *)
(* framing and the count of consumed bytes are those of the zlib format;    *)
(* the entropy coding is left out.                                          *)

RECURSIVE StoredBlocks(_)
StoredBlocks(data) ==
    IF Len(data) <= 255 THEN <<1, Len(data)>> \o data
    ELSE <<0, 255>> \o SubSeq(data, 1, 255) \o StoredBlocks(SubSeq(data, 256, Len(data)))

\* zlib::write: Compression::default() writes FLG = 0x9c
zlib_write(data) == <<120, 156>> \o StoredBlocks(data)

\* the same data as another compressor (level 1, FLG = 0x01) stores it
zlib_write_fast(data) == <<120, 1>> \o StoredBlocks(data)

\* the blocks from position i: Ok([consumed, content]) or a decode error
RECURSIVE zlib_read_blocks(_, _, _)
zlib_read_blocks(bytes, i, content) ==
    IF i + 2 > Len(bytes) THEN Err("zlib", <<>>)
    ELSE IF bytes[i + 1] \notin {0, 1} THEN Err("zlib", <<>>)
    ELSE IF i + 2 + bytes[i + 2] > Len(bytes) THEN Err("zlib", <<>>)
    ELSE
      LET data == Slice(bytes, i + 2, i + 2 + bytes[i + 2])
          next == i + 2 + bytes[i + 2]
      IN IF bytes[i + 1] = 1
         THEN Ok([consumed |-> next, content |-> content \o data])
         ELSE zlib_read_blocks(bytes, next, content \o data)

\* zlib::read: (decoder.total_in(), content)
zlib_read(bytes) ==
    IF Len(bytes) < 2 THEN Err("zlib", <<>>)
    ELSE IF bytes[1] # 120 \/ (bytes[1] * 256 + bytes[2]) % 31 # 0 THEN Err("zlib", <<>>)
    ELSE zlib_read_blocks(bytes, 2, <<>>)

----------------------------------------------------------------------------
(* main.rs: the local object store.  s_objects says whether                *)
(* <root>/.git/objects exists, s_dirs holds the two-character directories  *)
(* under it, s_files maps the 40-character hex name of a stored object     *)
(* (directory and file name together) to the file's bytes.                 *)

\* write_object where the file system answers io to fs::write: "ok", or "fail"
\* (an I/O error that leaves the new file empty).  [result, dirs, files]
write_object_always(objects, dirs, files, obj, io) ==
    LET result == zlib_write(encode_bytes(obj))
        hex == to_hex(encode_sha(obj))
        dir == Slice(hex, 0, 2)
        written == IF io = "ok" THEN result ELSE <<>>
    IN IF dir \notin dirs /\ ~objects
       THEN [result |-> Err("io", <<>>), dirs |-> dirs, files |-> files]
       ELSE [result |-> IF io = "ok" THEN Ok(encode_sha(obj)) ELSE Err("io", <<>>),
             dirs |-> dirs \cup {dir},
             files |-> [p \in DOMAIN files \cup {hex} |->
                          IF p = hex THEN written ELSE files[p]]]

write_object(objects, dirs, files, obj, io) ==
    LET result == zlib_write(encode_bytes(obj))
        hex == to_hex(encode_sha(obj))
        dir == Slice(hex, 0, 2)
        written == IF io = "ok" THEN result ELSE <<>>
    IN IF dir \notin dirs /\ ~objects
       THEN [result |-> Err("io", <<>>), dirs |-> dirs, files |-> files]
       ELSE IF hex \in DOMAIN files
       THEN [result |-> Ok(encode_sha(obj)), dirs |-> dirs \cup {dir}, files |-> files]
       ELSE [result |-> IF io = "ok" THEN Ok(encode_sha(obj)) ELSE Err("io", <<>>),
             dirs |-> dirs \cup {dir},
             files |-> [p \in DOMAIN files \cup {hex} |->
                          IF p = hex THEN written ELSE files[p]]]

\* read_object on the store: fs::read, zlib::read, Object::decode
read_object(files, hex) ==
    IF hex \notin DOMAIN files THEN Err("io", <<>>)
    ELSE LET z == zlib_read(files[hex])
         IN IF IsErr(z) THEN z ELSE decode(z.val.content)

----------------------------------------------------------------------------
(* pack.rs: variable-length integers and delta application *)

Pow2(k) == 2 ^ k

\* (1 << k) & n > 0
Bit(n, k) == (n \div Pow2(k)) % 2 = 1

\* read_var_len_integer_le
RECURSIVE read_var_len_integer_le(_)
read_var_len_integer_le(bytes) ==
    IF bytes = <<>> THEN 0
    ELSE (bytes[1] % 128) + 128 * read_var_len_integer_le(Tail(bytes))

\* parse_instruction, the copy arm: the flagged bytes l..5 of bs from index i on,
\* with the offset and length so far.  Ok([skip, kind, len, offset]) or a panic
\* (bs[i] past the end of bs)
RECURSIVE parse_copy(_, _, _, _, _, _)
parse_copy(instruction, bs, l, i, len, offset) ==
    IF l = 6 THEN Ok([skip |-> i, kind |-> "copy", len |-> len, offset |-> offset])
    ELSE IF ~Bit(instruction, l)
         THEN parse_copy(instruction, bs, l + 1, i, len, offset)
    ELSE IF i >= Len(bs) THEN Panic
    ELSE IF l < 4
         THEN parse_copy(instruction, bs, l + 1, i + 1, len,
                         offset + bs[i + 1] * Pow2(8 * l))
    ELSE parse_copy(instruction, bs, l + 1, i + 1,
                    len + bs[i + 1] * Pow2(8 * (l - 4)), offset)

\* parse_instruction that hands the copy's fields back in the other order
parse_instruction_swapped(instruction, bs) ==
    LET r == parse_copy(instruction, bs, 0, 0, 0, 0)
    IN IF instruction > 128
       THEN IF IsOk(r)
            THEN Ok([skip |-> r.val.skip, kind |-> "copy",
                     len |-> r.val.offset, offset |-> r.val.len])
            ELSE r
       ELSE Ok([skip |-> 1, kind |-> "insert", len |-> instruction % 128, offset |-> 0])

\* parse_instruction
parse_instruction(instruction, bs) ==
    IF instruction > 128 THEN parse_copy(instruction, bs, 0, 0, 0, 0)
    ELSE Ok([skip |-> 1, kind |-> "insert", len |-> instruction % 128, offset |-> 0])

\* apply_delta, one turn of the instruction loop at cursor i with output res:
\* Ok([i, res]) or a panic (a slice out of range)
delta_step(base, delta, i, res) ==
    LET ins == parse_instruction(delta[i + 1], SliceFrom(delta, i + 1))
    IN IF IsPanic(ins) THEN Panic
       ELSE IF ins.val.kind = "copy"
       THEN IF ins.val.offset + ins.val.len > Len(base) THEN Panic
            ELSE Ok([i |-> i + ins.val.skip + 1,
                     res |-> res \o Slice(base, ins.val.offset,
                                                ins.val.offset + ins.val.len)])
       ELSE IF i + ins.val.skip + ins.val.len > Len(delta) THEN Panic
            ELSE Ok([i |-> i + ins.val.skip + ins.val.len,
                     res |-> res \o Slice(delta, i + ins.val.skip,
                                                 i + ins.val.skip + ins.val.len)])

\* apply_delta, the header: Ok([i, target_len]) with i the position of the first
\* instruction, or the error
delta_header(base, delta) ==
    LET source_len_last_byte == PositionLow(delta)
        i1 == source_len_last_byte + 1
        source_len == read_var_len_integer_le(Slice(delta, 0, i1))
        target_len_last_byte == PositionLow(SliceFrom(delta, i1))
        i2 == i1 + target_len_last_byte + 1
    IN IF source_len_last_byte = -1 THEN Err("no_low_byte", <<>>)
       ELSE IF Len(base) # source_len THEN Err("wrong_source_length", <<>>)
       ELSE IF target_len_last_byte = -1 THEN Err("no_low_byte", <<>>)
       ELSE Ok([i |-> i2, target_len |-> read_var_len_integer_le(Slice(delta, i1, i2))])

\* apply_delta, the end: the check of the output length
delta_finish(res, target_len) ==
    IF Len(res) # target_len THEN Err("wrong_target_length", <<>>) ELSE Ok(res)

\* apply_delta, the instruction loop from cursor i
RECURSIVE delta_loop(_, _, _, _, _)
delta_loop(base, delta, i, res, target_len) ==
    IF i < Len(delta)
    THEN LET st == delta_step(base, delta, i, res)
         IN IF IsPanic(st) THEN Panic
            ELSE delta_loop(base, delta, st.val.i, st.val.res, target_len)
    ELSE delta_finish(res, target_len)

\* apply_delta
apply_delta(base, delta) ==
    LET h == delta_header(base, delta)
    IN IF IsErr(h) THEN h ELSE delta_loop(base, delta, h.val.i, <<>>, h.val.target_len)

----------------------------------------------------------------------------
(* pack.rs: the pack decoder *)

\* "PACK\0\0\0\x02"
packMagic == <<80, 65, 67, 75, 0, 0, 0, 2>>

\* read_var_len_integer_be_with_increment, from the k-th byte (0-based) on
RECURSIVE be_with_increment_from(_, _)
be_with_increment_from(bytes, k) ==
    IF k >= Len(bytes) THEN 0
    ELSE (bytes[k + 1] % 128) * Pow2(7 * k)
         + (IF k # Len(bytes) - 1 THEN 1 ELSE 0)
         + be_with_increment_from(bytes, k + 1)

read_var_len_integer_be_with_increment(bytes) == be_with_increment_from(bytes, 0)

\* read_pack_metadata: (obj_type_code, len)
read_pack_metadata(bytes) ==
    [obj_type_code |-> (bytes[1] % 128) \div 16,
     len |-> read_var_len_integer_le(Tail(bytes)) * 16 + (bytes[1] % 16)]

\* read_pack_object, the payload: z is what zlib::read gave for the bytes after
\* the metadata (mlen bytes) and the base reference (skip bytes)
pack_object_payload(bytes, mlen, md, skip, z) ==
    IF IsErr(z) THEN z
    ELSE IF Len(z.val.content) # md.len THEN Err("wrong_object_length", <<>>)
    ELSE Ok([len |-> z.val.consumed + skip + mlen,
             type |-> md.obj_type_code,
             content |-> z.val.content,
             offset |-> IF md.obj_type_code = 6
                        THEN read_var_len_integer_be_with_increment(
                                 Slice(bytes, mlen, mlen + skip))
                        ELSE 0,
             sha |-> IF md.obj_type_code = 7
                     THEN Slice(bytes, mlen, mlen + ShaLen) ELSE <<>>])

\* read_pack_object, the match on the type code
pack_object_body(bytes, mlen, md) ==
    LET offset_last_byte == PositionLow(SliceFrom(bytes, mlen))
        skip == IF md.obj_type_code = 6 THEN offset_last_byte + 1
                ELSE IF md.obj_type_code = 7 THEN ShaLen ELSE 0
    IN IF md.obj_type_code \notin {1, 2, 3, 4, 6, 7} THEN Err("unrecognized_type", <<>>)
       ELSE IF md.obj_type_code = 6 /\ offset_last_byte = -1 THEN Err("no_low_byte", <<>>)
       ELSE IF md.obj_type_code = 7 /\ mlen + ShaLen > Len(bytes) THEN Panic
       ELSE pack_object_payload(bytes, mlen, md, skip,
                                zlib_read(SliceFrom(bytes, mlen + skip)))

\* read_pack_object: Ok([len, type, content, offset, sha]) with len the bytes the
\* entry takes, an error or a panic
read_pack_object(bytes) ==
    IF PositionLow(bytes) = -1 THEN Err("no_low_byte", <<>>)
    ELSE pack_object_body(bytes, PositionLow(bytes) + 1,
                          read_pack_metadata(Slice(bytes, 0, PositionLow(bytes) + 1)))

\* HashMap::insert
map_insert(map, k, v) == [x \in DOMAIN map \cup {k} |-> IF x = k THEN v ELSE map[x]]

\* the decoder a payload is given to: by the entry's type, or by the base object's
decode_as(kind, content) ==
    IF kind = "blob" THEN decode_blob(content)
    ELSE IF kind = "tree" THEN decode_tree(content)
    ELSE decode_commit(content)

\* parse_pack, the end of an arm with the entry put into the offset table only
pack_register_offset_only(decoded, content, i, content_by_sha, sha_by_byte_offset) ==
    IF ~IsOk(decoded) THEN decoded
    ELSE Ok([content_by_sha |-> content_by_sha,
             sha_by_byte_offset |->
                map_insert(sha_by_byte_offset, i, encode_sha(decoded.val))])

\* parse_pack, the end of an arm: the decoded object is hashed and entered in both
\* tables under the entry's start position i
pack_register(decoded, content, i, content_by_sha, sha_by_byte_offset) ==
    IF ~IsOk(decoded) THEN decoded
    ELSE Ok([content_by_sha |->
                map_insert(content_by_sha, encode_sha(decoded.val),
                        [object |-> decoded.val, content |-> content]),
             sha_by_byte_offset |->
                map_insert(sha_by_byte_offset, i, encode_sha(decoded.val))])

\* parse_pack, the delta arms: content is what apply_delta gave against base
pack_delta_apply(base, content, i, content_by_sha, sha_by_byte_offset) ==
    IF ~IsOk(content) THEN content
    ELSE pack_register(decode_as(base.object.kind, content.val), content.val,
                       i, content_by_sha, sha_by_byte_offset)

\* parse_pack, the delta arms from the base hash on
pack_delta(base_sha, delta, i, content_by_sha, sha_by_byte_offset) ==
    IF base_sha \notin DOMAIN content_by_sha THEN Err("no_object", base_sha)
    ELSE pack_delta_apply(content_by_sha[base_sha],
                          apply_delta(content_by_sha[base_sha].content, delta),
                          i, content_by_sha, sha_by_byte_offset)

\* parse_pack, the match on one entry read at position i.  checks says whether
\* the build checks arithmetic overflow (i - offset below zero panics) or wraps
\* (the difference is a position no entry has)
pack_arm(obj, i, content_by_sha, sha_by_byte_offset, checks) ==
    IF obj.type = 1
    THEN pack_register(decode_commit(obj.content), obj.content, i,
                       content_by_sha, sha_by_byte_offset)
    ELSE IF obj.type = 2
    THEN pack_register(decode_tree(obj.content), obj.content, i,
                       content_by_sha, sha_by_byte_offset)
    ELSE IF obj.type = 3
    THEN pack_register(decode_blob(obj.content), obj.content, i,
                       content_by_sha, sha_by_byte_offset)
    ELSE IF obj.type = 4
    THEN Ok([content_by_sha |-> content_by_sha, sha_by_byte_offset |-> sha_by_byte_offset])
    ELSE IF obj.type = 6
    THEN IF obj.offset > i /\ checks THEN Panic
         ELSE IF obj.offset > i \/ (i - obj.offset) \notin DOMAIN sha_by_byte_offset
         THEN Err("no_object_at_offset", <<>>)
         ELSE pack_delta(sha_by_byte_offset[i - obj.offset], obj.content, i,
                         content_by_sha, sha_by_byte_offset)
    ELSE pack_delta(obj.sha, obj.content, i, content_by_sha, sha_by_byte_offset)

\* parse_pack, the header: the count is read from bytes 8..11 (a panic on fewer
\* than 12 bytes), then the first 8 bytes are compared
pack_header(pack) ==
    IF Len(pack) < 12 THEN Panic
    ELSE IF Slice(pack, 0, 8) # packMagic THEN Err("no_pack_header", Slice(pack, 0, 8))
    ELSE Ok(((pack[9] * 256 + pack[10]) * 256 + pack[11]) * 256 + pack[12])

\* parse_pack, the loop condition i < pack.len() - 20: "panic" when the
\* subtraction overflows in a build that checks it; where it wraps, the bound is
\* above every position
pack_loop_cond(pack, i, checks) ==
    IF Len(pack) < ShaLen
    THEN IF checks THEN "panic" ELSE "continue"
    ELSE IF i < Len(pack) - ShaLen THEN "continue" ELSE "exit"

\* parse_pack, the end of a turn: a is what the match gave, len the bytes read
pack_entry_next(i, len, a) ==
    IF ~IsOk(a) THEN a
    ELSE Ok([i |-> i + len,
             content_by_sha |-> a.val.content_by_sha,
             sha_by_byte_offset |-> a.val.sha_by_byte_offset])

\* parse_pack, a turn from the entry r that read_pack_object gave
pack_entry_arm(r, i, content_by_sha, sha_by_byte_offset, checks) ==
    IF ~IsOk(r) THEN r
    ELSE pack_entry_next(i, r.val.len,
                         pack_arm(r.val, i, content_by_sha, sha_by_byte_offset, checks))

\* parse_pack, one turn of the loop: Ok([i, content_by_sha, sha_by_byte_offset]),
\* an error or a panic
pack_entry(pack, i, content_by_sha, sha_by_byte_offset, checks) ==
    IF i > Len(pack) THEN Panic
    ELSE pack_entry_arm(read_pack_object(SliceFrom(pack, i)), i,
                        content_by_sha, sha_by_byte_offset, checks)

\* parse_pack, after the loop: the count check and the returned mapping
pack_finish(count, content_by_sha) ==
    IF count # Cardinality(DOMAIN content_by_sha) THEN Err("wrong_count", <<>>)
    ELSE Ok([h \in {to_hex(sha) : sha \in DOMAIN content_by_sha} |->
               content_by_sha[CHOOSE sha \in DOMAIN content_by_sha : to_hex(sha) = h].object])

----------------------------------------------------------------------------
(* remote.rs and main.rs: fetch_ref and the clone command *)

\* "0008NAK\n"
nakLine == <<48, 48, 48, 56, 78, 65, 75, 10>>

\* fetch_ref, the check of the response: Ok(the bytes given to parse_pack), the
\* error, or the panic of split_to(8) on fewer than 8 bytes
fetch_split(response) ==
    IF Len(response) < 8 THEN Panic
    ELSE IF Slice(response, 0, 8) # nakLine THEN Err("no_nak", Slice(response, 0, 8))
    ELSE Ok(SliceFrom(response, 8))

\* main, clone: the objects the loop over pack_objects may give to write_object.
\* pack_objects is bound once fetch_ref has returned Ok
clone_writable_streaming(pc, pack_objects, content_by_sha) ==
    IF pc = "write" THEN pack_objects
    ELSE IF pc = "loop"
    THEN [h \in {to_hex(sha) : sha \in DOMAIN content_by_sha} |->
            content_by_sha[CHOOSE sha \in DOMAIN content_by_sha : to_hex(sha) = h].object]
    ELSE <<>>

clone_writable(pc, pack_objects, content_by_sha) ==
    IF pc = "write" THEN pack_objects ELSE <<>>

----------------------------------------------------------------------------
(* remote.rs: get_refs, from the body of the discovery response on *)

\* "0000"
flushLine == <<48, 48, 48, 48>>

\* str::lines: the pieces that end at each "\n", without it and without a "\r"
\* before it; what follows the last "\n", if anything, is the last line
RECURSIVE lines(_)
lines(body) ==
    IF body = <<>> THEN <<>>
    ELSE IF Position(body, LF) = -1 THEN <<body>>
    ELSE LET p == Position(body, LF)
         IN <<IF p > 0 /\ body[p] = CR THEN Slice(body, 0, p - 1) ELSE Slice(body, 0, p)>>
            \o lines(SliceFrom(body, p + 1))

\* str::trim_start_matches("0000")
RECURSIVE trim_start_matches(_)
trim_start_matches(s) ==
    IF Len(s) >= 4 /\ Slice(s, 0, 4) = flushLine
    THEN trim_start_matches(SliceFrom(s, 4)) ELSE s

\* the sha of a Ref taken from the 5th character of the first token on
ref_sha_untrimmed(tok) ==
    IF Len(tok) < 4 THEN Panic ELSE Ok(SliceFrom(tok, 4))

\* the sha of a Ref: the first token without its leading "0000" groups, from the
\* 5th character on (a panic on fewer than 4 characters)
ref_sha(tok) ==
    IF Len(trim_start_matches(tok)) < 4 THEN Panic
    ELSE Ok(SliceFrom(trim_start_matches(tok), 4))

\* get_refs, one turn of the loop: the text before the first NUL is split at the
\* spaces; Ok(the Ref), the error on a missing second token, or the panic
refs_line(line) ==
    LET ref_data == take_until(line, NUL)
    IN IF IsPanic(ref_sha(take_until(ref_data, SP))) THEN Panic
       ELSE IF Position(ref_data, SP) = -1 THEN Err("ref_name_not_found", <<>>)
       ELSE Ok([sha |-> ref_sha(take_until(ref_data, SP)).val,
                name |-> take_until(SliceFrom(ref_data, Position(ref_data, SP) + 1), SP)])

\* body.lines().skip(1)
refs_lines(body) == IF lines(body) = <<>> THEN <<>> ELSE Tail(lines(body))

----------------------------------------------------------------------------
(* Inputs of the object model *)

MaxBlobLen == 2

MaxTreeEntries == 2

MaxParents == 2

SeqsUpTo(S, n) == UNION {[1..k -> S] : k \in 0..n}

\* a hash and its hex form, as the store produces them
SomeSha == get_sha(<<97>>)

SomeHex == to_hex(SomeSha)

BlobInputs == {Blob(b) : b \in SeqsUpTo({0, 97, 200}, MaxBlobLen)}

\* modes 100644 and 40000 (main.rs write_tree); names "a" and "b c"
TreeEntryInputs ==
    {ObjectReference(m, n, SomeSha) : m \in {100644, 40000}, n \in {<<97>>, <<98, 32, 99>>}}

TreeInputs == {Tree(r) : r \in SeqsUpTo(TreeEntryInputs, MaxTreeEntries)}

\* names "A", "A B", "" and "A " ; timezone "+0000"
AuthorInputs ==
    {Contributor(n, <<101, 64, 120>>, 15, <<43, 48, 48, 48, 48>>) :
        n \in {<<65>>, <<65, 32, 66>>, <<>>, <<65, 32>>}}

CommitterInputs ==
    {Contributor(<<65>>, <<101>>, t, <<45, 48, 49, 48, 48>>) : t \in {0, 1700}}

\* messages "", "m\n" and "\nparent"
MessageInputs == {<<>>, <<109, 10>>, <<10, 112, 97, 114, 101, 110, 116>>}

CommitInputs ==
    {Commit(SomeHex, ps, a, c, m) :
        ps \in SeqsUpTo({SomeHex}, MaxParents), a \in AuthorInputs,
        c \in CommitterInputs, m \in MessageInputs}

\* leading tokens "blob", "tree", "commit", "tag", "blobx", "trees", "commits", "x"
TokenInputs ==
    {blobTok, treeTok, commitTok, <<116, 97, 103>>, Append(blobTok, 120),
     Append(treeTok, 115), Append(commitTok, 115), <<120>>}

\* "<token> 0\0" and "<token> 1\0a"
RawInputs ==
    {t \o <<SP, 48, NUL>> : t \in TokenInputs}
    \cup {t \o <<SP, 49, NUL, 97>> : t \in TokenInputs}

----------------------------------------------------------------------------
(* The object model run on one input: an object is encoded and the bytes  *)
(* decoded again (o_pc "object" -> "encoded" -> "decoded"), or given bytes *)
(* are decoded (o_pc "bytes" -> "rawdecoded").                             *)

ObjIdle == o_pc = "idle" /\ o_in = None /\ o_enc = <<>> /\ o_dec = None

ObjInit ==
    \/ /\ o_pc = "object"
       /\ o_in \in BlobInputs \cup TreeInputs \cup CommitInputs
       /\ o_enc = <<>>
       /\ o_dec = None
    \/ /\ o_pc = "bytes"
       /\ o_in = None
       /\ o_enc \in RawInputs
       /\ o_dec = None

Encode ==
    /\ o_pc = "object"
    /\ o_enc' = encode_bytes(o_in)
    /\ o_pc' = "encoded"
    /\ UNCHANGED <<o_in, o_dec, notObj>>

Decode ==
    /\ o_pc \in {"encoded", "bytes"}
    /\ o_dec' = decode(o_enc)
    /\ o_pc' = IF o_pc = "encoded" THEN "decoded" ELSE "rawdecoded"
    /\ UNCHANGED <<o_in, o_enc, notObj>>

ObjNext == Encode \/ Decode

----------------------------------------------------------------------------
(* A series of write_object calls on one root.  The root is initialised    *)
(* (init created .git/objects) or not, and may already hold objects that   *)
(* another client stored.  s_log records each call: the object, the        *)
(* result, the bytes of the object's file after the call (a sequence of    *)
(* zero or one byte strings) and the number of files the call added.       *)

MaxWrites == 3

StoreObjects == {Blob(<<97>>), Blob(<<98>>), Tree(<<>>)}

HexOf(obj) == to_hex(encode_sha(obj))

StoreIdle == s_objects = FALSE /\ s_dirs = {} /\ s_files = <<>> /\ s_log = <<>>

StoreInit ==
    /\ s_objects \in BOOLEAN
    /\ \E P \in SUBSET StoreObjects :
          /\ ~s_objects => P = {}
          /\ s_dirs = {Slice(HexOf(o), 0, 2) : o \in P}
          /\ s_files = [p \in {HexOf(o) : o \in P} |->
                          zlib_write_fast(encode_bytes(CHOOSE o \in P : HexOf(o) = p))]
    /\ s_log = <<>>

WriteObject ==
    /\ Len(s_log) < MaxWrites
    /\ \E obj \in StoreObjects, io \in {"ok", "fail"} :
          LET w == write_object(s_objects, s_dirs, s_files, obj, io)
              hex == HexOf(obj)
          IN /\ s_dirs' = w.dirs
             /\ s_files' = w.files
             /\ s_log' = Append(s_log,
                   [obj |-> obj, result |-> w.result,
                    bytes |-> IF hex \in DOMAIN w.files THEN <<w.files[hex]>> ELSE <<>>,
                    added |-> Cardinality(DOMAIN w.files) - Cardinality(DOMAIN s_files)])
    /\ UNCHANGED <<s_objects, notStore>>

StoreNext == WriteObject

----------------------------------------------------------------------------
(* One call of apply_delta.  The delta buffer is written from a program:   *)
(* the declared source and target lengths and a list of instructions,      *)
(* copy (offset, len, with the set of flagged offset and length bytes) or  *)
(* insert (the literal bytes).                                             *)

MaxInstrs == 2

Copy(offset, len, flags) == [kind |-> "copy", offset |-> offset, len |-> len, flags |-> flags]

Insert(bytes) == [kind |-> "insert", bytes |-> bytes]

\* a length as a little-endian base-128 varint
RECURSIVE VarintLE(_)
VarintLE(n) == IF n < 128 THEN <<n>> ELSE <<128 + (n % 128)>> \o VarintLE(n \div 128)

\* byte k of n, little-endian
ByteOf(n, k) == (n \div Pow2(8 * k)) % 256

\* the bits a copy must flag: the non-zero bytes of its offset and length
NeededFlags(offset, len) ==
    {k \in 0..3 : ByteOf(offset, k) # 0} \cup {4 + k : k \in {j \in 0..1 : ByteOf(len, j) # 0}}

RECURSIVE SumPow2(_)
SumPow2(S) == IF S = {} THEN 0 ELSE LET k == MinOf(S) IN Pow2(k) + SumPow2(S \ {k})

RECURSIVE FlaggedBytes(_, _, _)
FlaggedBytes(c, flags, k) ==
    IF k = 6 THEN <<>>
    ELSE (IF k \in flags
          THEN <<IF k < 4 THEN ByteOf(c.offset, k) ELSE ByteOf(c.len, k - 4)>>
          ELSE <<>>) \o FlaggedBytes(c, flags, k + 1)

InstrBytes(ins) ==
    IF ins.kind = "copy"
    THEN <<128 + SumPow2(ins.flags)>> \o FlaggedBytes(ins, ins.flags, 0)
    ELSE <<Len(ins.bytes)>> \o ins.bytes

RECURSIVE ProgBytes(_)
ProgBytes(instrs) ==
    IF instrs = <<>> THEN <<>> ELSE InstrBytes(instrs[1]) \o ProgBytes(Tail(instrs))

DeltaBytes(prog) ==
    VarintLE(prog.source_len) \o VarintLE(prog.target_len) \o ProgBytes(prog.instrs)

\* what the instructions say the target is
RECURSIVE Expected(_, _)
Expected(base, instrs) ==
    IF instrs = <<>> THEN <<>>
    ELSE (IF instrs[1].kind = "copy"
          THEN Slice(base, instrs[1].offset, instrs[1].offset + instrs[1].len)
          ELSE instrs[1].bytes) \o Expected(base, Tail(instrs))

\* "appel" and "ab"
BaseInputs == {<<97, 112, 112, 101, 108>>, <<97, 98>>}

\* the copies in range of the base, flagged minimally or with further (zero) bytes
CopyInputs(base) ==
    {Copy(o, l, NeededFlags(o, l) \cup extra) :
        o \in {0, 1, 4}, l \in {1, 2, 3}, extra \in {{}, {0, 1, 5}}}
    \cap {c \in [kind : {"copy"}, offset : 0..4, len : 1..3, flags : SUBSET (0..5)] :
             c.offset + c.len <= Len(base)}

\* inserts of "p" and of "xy"
InsertInputs == {Insert(<<112>>), Insert(<<120, 121>>)}

ProgInputs(base) ==
    {[source_len |-> Len(base) + ds, target_len |-> Len(Expected(base, is)) + dt,
      instrs |-> is] :
        is \in SeqsUpTo(CopyInputs(base) \cup InsertInputs, MaxInstrs),
        ds \in {0, 1}, dt \in {0, 1}}

DeltaIdle ==
    /\ d_pc = "idle" /\ d_prog = None /\ d_base = <<>> /\ d_delta = <<>>
    /\ d_i = 0 /\ d_res = <<>> /\ d_target = 0 /\ d_result = None

DeltaInit ==
    /\ d_pc = "call"
    /\ d_base \in BaseInputs
    /\ d_prog \in ProgInputs(d_base)
    /\ d_delta = DeltaBytes(d_prog)
    /\ d_i = 0 /\ d_res = <<>> /\ d_target = 0 /\ d_result = None

\* the two varints and the check of the source length
DeltaHeader ==
    /\ d_pc = "call"
    /\ LET h == delta_header(d_base, d_delta)
       IN IF IsErr(h)
          THEN d_pc' = "returned" /\ d_result' = h /\ UNCHANGED <<d_i, d_target>>
          ELSE /\ d_pc' = "loop" /\ d_i' = h.val.i /\ d_target' = h.val.target_len
               /\ UNCHANGED d_result
    /\ UNCHANGED <<d_prog, d_base, d_delta, d_res, notDelta>>

\* one instruction
DeltaStep ==
    /\ d_pc = "loop"
    /\ d_i < Len(d_delta)
    /\ LET st == delta_step(d_base, d_delta, d_i, d_res)
       IN IF IsPanic(st)
          THEN d_pc' = "returned" /\ d_result' = Panic /\ UNCHANGED <<d_i, d_res>>
          ELSE d_i' = st.val.i /\ d_res' = st.val.res /\ UNCHANGED <<d_pc, d_result>>
    /\ UNCHANGED <<d_prog, d_base, d_delta, d_target, notDelta>>

\* the buffer is exhausted: the check of the target length
DeltaFinish ==
    /\ d_pc = "loop"
    /\ d_i >= Len(d_delta)
    /\ d_pc' = "returned"
    /\ d_result' = delta_finish(d_res, d_target)
    /\ UNCHANGED <<d_prog, d_base, d_delta, d_i, d_res, d_target, notDelta>>

DeltaNext == DeltaHeader \/ DeltaStep \/ DeltaFinish

----------------------------------------------------------------------------
(* The clone command from the upload-pack response on: fetch_ref checks    *)
(* the response and calls parse_pack, whose loop reads one entry a step;   *)
(* main then writes the returned objects to the new, empty store.  The     *)
(* pack is built from a declared count and a list of entry kinds, or is    *)
(* given as raw bytes.                                                     *)

MaxEntries == 2

\* an entry's first bytes: the type code and the declared length
Metadata(type, len) ==
    IF len < 16 THEN <<type * 16 + len>>
    ELSE <<128 + type * 16 + (len % 16)>> \o VarintLE(len \div 16)

\* an offset as git writes it: most significant group first, each byte but the
\* last carrying an implicit + 1
RECURSIVE OfsHigh(_)
OfsHigh(n) ==
    IF n = 0 THEN <<>> ELSE OfsHigh((n - 1) \div 128) \o <<128 + ((n - 1) % 128)>>

OfsEncode(n) == OfsHigh(n \div 128) \o <<n % 128>>

\* against a one-byte base: COPY(offset 0, len 1) then INSERT("b")
PackDelta ==
    DeltaBytes([source_len |-> 1, target_len |-> 2,
                instrs |-> <<Copy(0, 1, {4}), Insert(<<98>>)>>])

PackTreePayload == TreeContent(<<ObjectReference(100644, <<97>>, SomeSha)>>)

PackCommitPayload ==
    CommitContent(Commit(SomeHex, <<>>,
        Contributor(<<65>>, <<101>>, 1, <<43, 48, 48, 48, 48>>),
        Contributor(<<65>>, <<101>>, 1, <<43, 48, 48, 48, 48>>), <<109, 10>>))

EntryKinds ==
    {"blob_a", "blob_b", "tag", "tree", "commit", "ofs_prev", "ofs_far", "ofs_mid",
     "ref_a", "ref_b", "bad_type", "bad_len"}

\* the bytes of an entry of the kind that starts at pos, the entry before it
\* starting at prev
EntryBytes(kind, pos, prev) ==
    CASE kind = "blob_a" -> Metadata(3, 1) \o zlib_write(<<97>>)
      [] kind = "blob_b" -> Metadata(3, 1) \o zlib_write(<<98>>)
      [] kind = "tag" -> Metadata(4, 1) \o zlib_write(<<116>>)
      [] kind = "tree" -> Metadata(2, Len(PackTreePayload)) \o zlib_write(PackTreePayload)
      [] kind = "commit" ->
            Metadata(1, Len(PackCommitPayload)) \o zlib_write(PackCommitPayload)
      [] kind = "ofs_prev" ->
            Metadata(6, Len(PackDelta)) \o OfsEncode(pos - prev) \o zlib_write(PackDelta)
      [] kind = "ofs_far" ->
            Metadata(6, Len(PackDelta)) \o OfsEncode(pos + 1) \o zlib_write(PackDelta)
      [] kind = "ofs_mid" ->
            Metadata(6, Len(PackDelta)) \o OfsEncode(1) \o zlib_write(PackDelta)
      [] kind = "ref_a" ->
            Metadata(7, Len(PackDelta)) \o encode_sha(Blob(<<97>>)) \o zlib_write(PackDelta)
      [] kind = "ref_b" ->
            Metadata(7, Len(PackDelta)) \o encode_sha(Blob(<<98>>)) \o zlib_write(PackDelta)
      [] kind = "bad_type" -> Metadata(5, 1) \o zlib_write(<<97>>)
      [] kind = "bad_len" -> Metadata(3, 2) \o zlib_write(<<97>>)

RECURSIVE PackBody(_, _, _)
PackBody(kinds, pos, prev) ==
    IF kinds = <<>> THEN <<>>
    ELSE LET b == EntryBytes(kinds[1], pos, prev)
         IN b \o PackBody(Tail(kinds), pos + Len(b), pos)

\* the 20-byte checksum that ends a pack; parse_pack does not read it
PackTrailer == [k \in 1..ShaLen |-> 0]

PackOf(magic, count, kinds) ==
    magic \o <<0, 0, 0, count>> \o PackBody(kinds, 12, 12) \o PackTrailer

\* headers with another magic and another version
BadMagics == {<<88, 65, 67, 75, 0, 0, 0, 2>>, <<80, 65, 67, 75, 0, 0, 0, 3>>}

\* packs of every length below a header and a checksum, with good and bad magic
RawPacks ==
    {Slice(m \o <<0, 0, 0, 0>> \o PackTrailer, 0, n) :
        m \in BadMagics \cup {packMagic}, n \in {0, 3, 8, 11, 12, 19, 20, 31}}
    \cup {PackOf(m, 1, <<"blob_a">>) : m \in BadMagics}

\* responses that do not start with "0008NAK\n": "0008ACK\n", and short ones
RawResponses ==
    {<<48, 48, 48, 56, 65, 67, 75, 10>> \o PackOf(packMagic, 1, <<"blob_a">>),
     <<>>, Slice(nakLine, 0, 4), Slice(nakLine, 0, 7),
     <<48, 48, 48, 56, 65, 67, 75>>}

PackIdle ==
    /\ n_response = <<>> /\ f_result = None /\ p_src = "idle" /\ p_kinds = <<>>
    /\ p_checks = FALSE /\ p_pc = "idle" /\ p_pack = <<>> /\ p_count = 0 /\ p_i = 0
    /\ p_content_by_sha = <<>> /\ p_sha_by_byte_offset = <<>> /\ p_read = 0
    /\ p_exit = "" /\ p_result = None
    /\ c_objects = <<>> /\ c_done = {} /\ c_result = None

PackInit ==
    /\ \/ /\ p_src = "built"
          /\ p_kinds \in SeqsUpTo(EntryKinds, MaxEntries)
          /\ \E dc \in {-1, 0, 1} :
                /\ Len(p_kinds) + dc >= 0
                /\ n_response = nakLine \o PackOf(packMagic, Len(p_kinds) + dc, p_kinds)
       \/ /\ p_src = "raw"
          /\ p_kinds = <<>>
          /\ n_response \in {nakLine \o r : r \in RawPacks} \cup RawResponses
    /\ p_checks \in BOOLEAN
    /\ p_pc = "fetch"
    /\ f_result = None /\ p_pack = <<>> /\ p_count = 0 /\ p_i = 0
    /\ p_content_by_sha = <<>> /\ p_sha_by_byte_offset = <<>> /\ p_read = 0
    /\ p_exit = "" /\ p_result = None
    /\ c_objects = <<>> /\ c_done = {} /\ c_result = None

\* the store of the directory clone has just created and initialised
CloneStoreInit == s_objects = TRUE /\ s_dirs = {} /\ s_files = <<>> /\ s_log = <<>>

\* fetch_ref: the first 8 bytes are split off and compared, the rest is the pack
FetchRef ==
    /\ p_pc = "fetch"
    /\ LET r == fetch_split(n_response)
       IN IF IsOk(r)
          THEN p_pc' = "parse" /\ p_pack' = r.val /\ UNCHANGED <<f_result, c_result>>
          ELSE p_pc' = "failed" /\ f_result' = r /\ c_result' = r /\ UNCHANGED p_pack
    /\ UNCHANGED <<n_response, p_src, p_kinds, p_checks, p_count, p_i, p_content_by_sha,
                   p_sha_by_byte_offset, p_read, p_exit, p_result, c_objects, c_done,
                   storeVars, notPack>>

\* parse_pack returns r from the place named: the two tables are dropped
ParseReturn(r, from) ==
    /\ p_pc' = "returned"
    /\ p_result' = r
    /\ f_result' = r
    /\ p_exit' = from

\* parse_pack: the header
ParseHeader ==
    /\ p_pc = "parse"
    /\ LET h == pack_header(p_pack)
       IN IF IsOk(h)
          THEN /\ p_pc' = "loop" /\ p_count' = h.val /\ p_i' = 12
               /\ UNCHANGED <<p_result, f_result, p_exit>>
          ELSE ParseReturn(h, "header") /\ UNCHANGED <<p_count, p_i>>
    /\ UNCHANGED <<n_response, p_src, p_kinds, p_checks, p_pack, p_content_by_sha,
                   p_sha_by_byte_offset, p_read, c_objects, c_done, c_result,
                   storeVars, notPack>>

\* parse_pack: one turn of the loop
ParseEntry ==
    /\ p_pc = "loop"
    /\ pack_loop_cond(p_pack, p_i, p_checks) = "continue"
    /\ LET e == pack_entry(p_pack, p_i, p_content_by_sha, p_sha_by_byte_offset, p_checks)
       IN IF IsOk(e)
          THEN /\ p_i' = e.val.i
               /\ p_content_by_sha' = e.val.content_by_sha
               /\ p_sha_by_byte_offset' = e.val.sha_by_byte_offset
               /\ p_read' = p_read + 1
               /\ UNCHANGED <<p_pc, p_result, f_result, p_exit>>
          ELSE /\ ParseReturn(e, "entry")
               /\ UNCHANGED <<p_i, p_content_by_sha, p_sha_by_byte_offset, p_read>>
    /\ UNCHANGED <<n_response, p_src, p_kinds, p_checks, p_pack, p_count, c_objects,
                   c_done, c_result, storeVars, notPack>>

\* parse_pack: the loop condition fails (or its subtraction panics), then the
\* count is checked
ParseFinish ==
    /\ p_pc = "loop"
    /\ pack_loop_cond(p_pack, p_i, p_checks) # "continue"
    /\ IF pack_loop_cond(p_pack, p_i, p_checks) = "panic"
       THEN ParseReturn(Panic, "loop")
       ELSE ParseReturn(pack_finish(p_count, p_content_by_sha), "finish")
    /\ UNCHANGED <<n_response, p_src, p_kinds, p_checks, p_pack, p_count, p_i,
                   p_content_by_sha, p_sha_by_byte_offset, p_read, c_objects, c_done,
                   c_result, storeVars, notPack>>

\* main, clone: fetch_ref(..)? binds pack_objects or ends the command
CloneFetched ==
    /\ p_pc = "returned"
    /\ IF IsOk(f_result)
       THEN p_pc' = "write" /\ c_objects' = f_result.val /\ UNCHANGED c_result
       ELSE p_pc' = "failed" /\ c_result' = f_result /\ UNCHANGED c_objects
    /\ UNCHANGED <<n_response, f_result, p_src, p_kinds, p_checks, p_pack, p_count, p_i,
                   p_content_by_sha, p_sha_by_byte_offset, p_read, p_exit, p_result,
                   c_done, storeVars, notPack>>

\* main, clone: one turn of the loop over pack_objects, write_object(dir, o)?
CloneWrite ==
    /\ \E hex \in DOMAIN clone_writable(p_pc, c_objects, p_content_by_sha) \ c_done,
          io \in {"ok", "fail"} :
          LET o == clone_writable(p_pc, c_objects, p_content_by_sha)[hex]
              w == write_object(s_objects, s_dirs, s_files, o, io)
          IN /\ s_dirs' = w.dirs
             /\ s_files' = w.files
             /\ c_done' = c_done \cup {hex}
             /\ IF IsOk(w.result)
                THEN UNCHANGED <<p_pc, c_result>>
                ELSE p_pc' = "failed" /\ c_result' = w.result
    /\ UNCHANGED <<n_response, f_result, p_src, p_kinds, p_checks, p_pack, p_count, p_i,
                   p_content_by_sha, p_sha_by_byte_offset, p_read, p_exit, p_result,
                   c_objects, s_objects, s_log, notPack>>

\* main, clone: every object is written; the checkout follows
CloneWritten ==
    /\ p_pc = "write"
    /\ c_done = DOMAIN c_objects
    /\ p_pc' = "written"
    /\ UNCHANGED <<n_response, f_result, p_src, p_kinds, p_checks, p_pack, p_count, p_i,
                   p_content_by_sha, p_sha_by_byte_offset, p_read, p_exit, p_result,
                   c_objects, c_done, c_result, storeVars, notPack>>

PackNext ==
    FetchRef \/ ParseHeader \/ ParseEntry \/ ParseFinish \/ CloneFetched
    \/ CloneWrite \/ CloneWritten

----------------------------------------------------------------------------
(* One call of get_refs on a discovery response.  The body is built from a *)
(* list of refs (sha, name, capability suffix) in one of three layouts:    *)
(* "plain", each line "<sha-hex> <ref-name>[\0caps]"; "pkt", each line a   *)
(* pkt-line, that text after its 4 hex digits of length; "pkt_flush", the  *)
(* same with the flush "0000" that ends the banner section before the      *)
(* first ref line, as the smart HTTP protocol sends it.  Or it is given    *)
(* as raw bytes.                                                           *)

MaxRefs == 2

\* "0000aaa.." and the hex of a stored object's hash
RefShas == {[k \in 1..(2 * ShaLen) |-> IF k <= 4 THEN 48 ELSE 97], SomeHex}

\* "HEAD" and "refs/heads/m"
RefNames == {<<72, 69, 65, 68>>, <<114, 101, 102, 115, 47, 104, 101, 97, 100, 115, 47, 109>>}

\* no capabilities, and "\0a b"
RefCaps == {<<>>, <<NUL, 97, SP, 98>>}

RefEntries == [sha : RefShas, name : RefNames, caps : RefCaps]

\* "001e# service=git-upload-pack"
refsBanner ==
    <<48, 48, 49, 101, 35, 32, 115, 101, 114, 118, 105, 99, 101, 61, 103, 105, 116, 45,
      117, 112, 108, 111, 97, 100, 45, 112, 97, 99, 107>>

Hex4(n) ==
    <<HexDigit((n \div 4096) % 16), HexDigit((n \div 256) % 16),
      HexDigit((n \div 16) % 16), HexDigit(n % 16)>>

RefText(e) == e.sha \o <<SP>> \o e.name \o e.caps

\* the line of a ref, without its "\n"
RefLine(fmt, e, first) ==
    IF fmt = "plain" THEN RefText(e)
    ELSE (IF fmt = "pkt_flush" /\ first THEN flushLine ELSE <<>>)
         \o Hex4(Len(RefText(e)) + 5) \o RefText(e)

RECURSIVE RefLines(_, _, _)
RefLines(fmt, entries, first) ==
    IF entries = <<>> THEN <<>>
    ELSE RefLine(fmt, entries[1], first) \o <<LF>> \o RefLines(fmt, Tail(entries), FALSE)

\* banner, ref lines, flush line, and what follows it
RefsBody(fmt, entries, after) ==
    refsBanner \o <<LF>> \o RefLines(fmt, entries, TRUE) \o flushLine \o after

\* nothing, or a further ref line
RefsAfter(fmt) ==
    {<<>>, <<LF>> \o RefLine(fmt, [sha |-> SomeHex, name |-> <<72, 69, 65, 68>>, caps |-> <<>>],
                            FALSE) \o <<LF>>}

\* an empty body, a banner alone, a banner ended by "\r\n", a line of 3
\* characters and a line without a space
RawBodies ==
    {<<>>, refsBanner, refsBanner \o <<CR, LF>> \o flushLine,
     refsBanner \o <<LF, 97, 98, 99, LF>> \o flushLine,
     refsBanner \o <<LF>> \o SomeHex \o <<LF>> \o flushLine}

RefsIdle ==
    /\ r_fmt = "idle" /\ r_entries = <<>> /\ r_pc = "idle" /\ r_body = <<>>
    /\ r_lines = <<>> /\ r_refs = <<>> /\ r_result = None

RefsInit ==
    /\ r_pc = "call"
    /\ r_lines = <<>> /\ r_refs = <<>> /\ r_result = None
    /\ \/ /\ r_fmt \in {"plain", "pkt", "pkt_flush"}
          /\ r_entries \in SeqsUpTo(RefEntries, MaxRefs)
          /\ r_body \in {RefsBody(r_fmt, r_entries, a) : a \in RefsAfter(r_fmt)}
       \/ /\ r_fmt = "raw"
          /\ r_entries = <<>>
          /\ r_body \in RawBodies

\* get_refs: the body is cut into lines and the banner skipped
GetRefs ==
    /\ r_pc = "call"
    /\ r_lines' = refs_lines(r_body)
    /\ r_pc' = "loop"
    /\ UNCHANGED <<r_fmt, r_entries, r_body, r_refs, r_result, notRefs>>

\* get_refs: one turn of the loop on a line that is not "0000"
RefsLine ==
    /\ r_pc = "loop"
    /\ r_lines # <<>>
    /\ Head(r_lines) # flushLine
    /\ IF IsOk(refs_line(Head(r_lines)))
       THEN /\ r_refs' = Append(r_refs, refs_line(Head(r_lines)).val)
            /\ r_lines' = Tail(r_lines)
            /\ UNCHANGED <<r_pc, r_result>>
       ELSE /\ r_result' = refs_line(Head(r_lines))
            /\ r_pc' = "returned"
            /\ UNCHANGED <<r_lines, r_refs>>
    /\ UNCHANGED <<r_fmt, r_entries, r_body, notRefs>>

\* get_refs: the break on "0000", or the end of the lines; Ok(refs)
RefsReturn ==
    /\ r_pc = "loop"
    /\ IF r_lines = <<>> THEN TRUE ELSE Head(r_lines) = flushLine
    /\ r_result' = Ok(r_refs)
    /\ r_pc' = "returned"
    /\ UNCHANGED <<r_fmt, r_entries, r_body, r_lines, r_refs, notRefs>>

RefsNext == GetRefs \/ RefsLine \/ RefsReturn

----------------------------------------------------------------------------
(* One call of Object::content (the cat-file and ls-tree commands) on a    *)
(* blob or on a tree whose entries have modes of 1 to 7 digits.            *)

RenderInit ==
    /\ t_pc = "call"
    /\ t_in \in BlobInputs \cup
          {Tree(r) : r \in SeqsUpTo(
              {ObjectReference(m, <<97>>, SomeSha) :
                  m \in {0, 1, 755, 40000, 100644, 120000, 1234567}}
              \cup {ObjectReference(m, <<98, 32, 99>>,
                                    [k \in 1..ShaLen |-> IF k % 2 = 1 THEN 10 ELSE 255]) :
                  m \in {0, 1, 755, 40000, 100644, 120000, 1234567}},
              MaxTreeEntries)}
    /\ t_out = None

Render ==
    /\ t_pc = "call"
    /\ t_out' = object_content(t_in)
    /\ t_pc' = "rendered"
    /\ UNCHANGED <<t_in, notRender>>

----------------------------------------------------------------------------
(* One offset-delta entry (type 6) read by read_pack_object and located by *)
(* the ObjOfsDelta arm of parse_pack.  The pack's writer put the base, the *)
(* blob "a", at the distance before the entry that the offset bytes stand  *)
(* for in git's pack format; the entry starts at q_start.                  *)

MaxOfsBytes == 2

\* the value git's pack format gives to the offset bytes b0..bk
RECURSIVE OfsValue(_)
OfsValue(bytes) ==
    IF Len(bytes) = 1 THEN bytes[1] % 128
    ELSE (OfsValue(SubSeq(bytes, 1, Len(bytes) - 1)) + 1) * 128 + (bytes[Len(bytes)] % 128)

OfsInit ==
    /\ q_pc = "call"
    /\ q_obj = None
    /\ q_result = None
    /\ \E n \in 1..MaxOfsBytes :
          /\ q_ofs \in {h \o <<l>> : h \in [1..(n - 1) -> {128, 129, 130, 255}],
                                     l \in {1, 2, 5, 127}}
          /\ q_start \in {12 + OfsValue(q_ofs), 19 + OfsValue(q_ofs)}

OfsRead ==
    /\ q_pc = "call"
    /\ q_obj' = read_pack_object(Metadata(6, Len(PackDelta)) \o q_ofs \o zlib_write(PackDelta))
    /\ q_pc' = "read"
    /\ UNCHANGED <<q_ofs, q_start, q_result, notOfs>>

OfsLocate ==
    /\ q_pc = "read"
    /\ IsOk(q_obj)
    /\ \E checks \in BOOLEAN :
          q_result' = pack_arm(q_obj.val, q_start,
                          map_insert(<<>>, encode_sha(Blob(<<97>>)),
                                     [object |-> Blob(<<97>>), content |-> <<97>>]),
                          map_insert(<<>>, q_start - OfsValue(q_ofs),
                                     encode_sha(Blob(<<97>>))),
                          checks)
    /\ q_pc' = "located"
    /\ UNCHANGED <<q_ofs, q_start, q_obj, notOfs>>

OfsNext == OfsRead \/ OfsLocate

----------------------------------------------------------------------------
(* apply_delta on delta buffers given as raw bytes: a header for the base  *)
(* "ab" and then any instruction bytes, well-formed or not.  x_last keeps  *)
(* what the last turn of the loop saw: the control byte c, the bytes bs    *)
(* after it, the cursor i, what parse_instruction gave (ins) and what the  *)
(* turn gave (st).                                                         *)

MaxRawBytes == 3

RawInit ==
    /\ x_pc = "call"
    /\ x_base = <<97, 98>>
    /\ x_delta \in {<<>>, <<130>>, <<2, 130>>, <<3, 0>>} \cup
          {<<2, t>> \o bs : t \in {0, 2},
                            bs \in SeqsUpTo({0, 1, 2, 128, 129, 144, 145, 177}, MaxRawBytes)}
    /\ x_i = 0
    /\ x_res = <<>>
    /\ x_target = 0
    /\ x_result = None
    /\ x_last = None

RawHeader ==
    /\ x_pc = "call"
    /\ LET h == delta_header(x_base, x_delta)
       IN IF IsErr(h)
          THEN x_pc' = "returned" /\ x_result' = h /\ UNCHANGED <<x_i, x_target>>
          ELSE /\ x_pc' = "loop" /\ x_i' = h.val.i /\ x_target' = h.val.target_len
               /\ UNCHANGED x_result
    /\ UNCHANGED <<x_base, x_delta, x_res, x_last, notRaw>>

RawStep ==
    /\ x_pc = "loop"
    /\ x_i < Len(x_delta)
    /\ x_last' = Ok([c |-> x_delta[x_i + 1],
                     bs |-> SliceFrom(x_delta, x_i + 1),
                     i |-> x_i,
                     ins |-> parse_instruction(x_delta[x_i + 1], SliceFrom(x_delta, x_i + 1)),
                     st |-> delta_step(x_base, x_delta, x_i, x_res)])
    /\ LET st == delta_step(x_base, x_delta, x_i, x_res)
       IN IF IsPanic(st)
          THEN x_pc' = "returned" /\ x_result' = Panic /\ UNCHANGED <<x_i, x_res>>
          ELSE x_i' = st.val.i /\ x_res' = st.val.res /\ UNCHANGED <<x_pc, x_result>>
    /\ UNCHANGED <<x_base, x_delta, x_target, notRaw>>

RawFinish ==
    /\ x_pc = "loop"
    /\ x_i >= Len(x_delta)
    /\ x_pc' = "returned"
    /\ x_result' = delta_finish(x_res, x_target)
    /\ UNCHANGED <<x_base, x_delta, x_i, x_res, x_target, x_last, notRaw>>

RawNext == RawHeader \/ RawStep \/ RawFinish

----------------------------------------------------------------------------
(* One entry of type 1, 2 or 3 whose payload is given as the bytes another *)
(* git wrote into the pack, read and registered by a turn of parse_pack at *)
(* position 12.  Tree modes come as "100644", "40000", "040000" and        *)
(* "+40000"; contributor names as "A", "A " and "A B"; timestamps as "1",  *)
(* "01" and "+1".                                                          *)

RECURSIVE Flatten(_)
Flatten(ss) == IF ss = <<>> THEN <<>> ELSE ss[1] \o Flatten(Tail(ss))

\* a commit payload with the author's name and timestamp as written
CommitText(name, ts) ==
    treeTok \o <<SP>> \o SomeHex \o <<LF>>
    \o authorTok \o <<SP>> \o name \o <<SP, LT, 101, GT, SP>> \o ts
    \o <<SP, 43, 48, 48, 48, 48, LF>>
    \o committerTok \o <<SP>>
    \o ContributorLine(Contributor(<<67>>, <<101>>, 1, <<43, 48, 48, 48, 48>>))
    \o <<LF, 109, LF>>

PayloadInit ==
    /\ y_pc = "call"
    /\ y_result = None
    /\ \/ /\ y_type = 1
          /\ y_p \in {CommitText(name, ts) :
                         name \in {<<65>>, <<65, SP>>, <<65, SP, 66>>},
                         ts \in {<<49>>, <<48, 49>>, <<43, 49>>}}
       \/ /\ y_type = 2
          /\ y_p \in {Flatten(es) : es \in SeqsUpTo(
                         {mode \o <<SP>> \o name \o <<NUL>> \o SomeSha :
                             mode \in {<<49, 48, 48, 54, 52, 52>>, <<52, 48, 48, 48, 48>>,
                                       <<48, 52, 48, 48, 48, 48>>, <<43, 52, 48, 48, 48, 48>>},
                             name \in {<<97>>, <<98>>}},
                         MaxTreeEntries)}
       \/ /\ y_type = 3
          /\ y_p \in {o.bytes : o \in BlobInputs}

PayloadRegister ==
    /\ y_pc = "call"
    /\ y_result' = pack_entry_arm(
                       read_pack_object(Metadata(y_type, Len(y_p)) \o zlib_write(y_p)),
                       12, <<>>, <<>>, FALSE)
    /\ y_pc' = "registered"
    /\ UNCHANGED <<y_type, y_p, notPayload>>

----------------------------------------------------------------------------
(* The runs that are not in use *)

RenderIdle == t_pc = "idle" /\ t_in = None /\ t_out = None

OfsIdle ==
    q_pc = "idle" /\ q_ofs = <<>> /\ q_start = 0 /\ q_obj = None /\ q_result = None

RawIdle ==
    /\ x_pc = "idle" /\ x_base = <<>> /\ x_delta = <<>> /\ x_i = 0 /\ x_res = <<>>
    /\ x_target = 0 /\ x_result = None /\ x_last = None

PayloadIdle == y_pc = "idle" /\ y_type = 0 /\ y_p = <<>> /\ y_result = None

LaterIdle == RenderIdle /\ OfsIdle /\ RawIdle /\ PayloadIdle

FirstIdle == ObjIdle /\ StoreIdle /\ DeltaIdle /\ PackIdle /\ RefsIdle

----------------------------------------------------------------------------
(* Specifications *)

InitObject == LaterIdle /\ StoreIdle /\ DeltaIdle /\ PackIdle /\ RefsIdle /\ ObjInit

SpecObject == InitObject /\ [][ObjNext]_vars

InitStore == LaterIdle /\ ObjIdle /\ DeltaIdle /\ PackIdle /\ RefsIdle /\ StoreInit

SpecStore == InitStore /\ [][StoreNext]_vars

InitDelta == LaterIdle /\ ObjIdle /\ StoreIdle /\ PackIdle /\ RefsIdle /\ DeltaInit

SpecDelta == InitDelta /\ [][DeltaNext]_vars

InitPack == LaterIdle /\ ObjIdle /\ DeltaIdle /\ RefsIdle /\ CloneStoreInit /\ PackInit

SpecPack == InitPack /\ [][PackNext]_vars

InitRefs == LaterIdle /\ ObjIdle /\ StoreIdle /\ DeltaIdle /\ PackIdle /\ RefsInit

SpecRefs == InitRefs /\ [][RefsNext]_vars

InitRender == FirstIdle /\ OfsIdle /\ RawIdle /\ PayloadIdle /\ RenderInit

SpecRender == InitRender /\ [][Render]_vars

InitOfs == FirstIdle /\ RenderIdle /\ RawIdle /\ PayloadIdle /\ OfsInit

SpecOfs == InitOfs /\ [][OfsNext]_vars

InitRaw == FirstIdle /\ RenderIdle /\ OfsIdle /\ PayloadIdle /\ RawInit

SpecRaw == InitRaw /\ [][RawNext]_vars

InitPayload == FirstIdle /\ RenderIdle /\ OfsIdle /\ RawIdle /\ PayloadInit

SpecPayload == InitPayload /\ [][PayloadRegister]_vars

----------------------------------------------------------------------------
(* C1: decoding the canonical bytes of an object succeeds and gives back   *)
(* the object, field for field.                                            *)
RoundTrip ==
    o_pc = "decoded" => IsOk(o_dec) /\ o_dec.val = o_in

\* the same for the objects whose contributor names end in no white space
RoundTripTrimmed ==
    (o_pc = "decoded" /\ (o_in.kind = "commit" =>
         /\ trim_end(o_in.author.name) = o_in.author.name
         /\ trim_end(o_in.committer.name) = o_in.committer.name))
    => IsOk(o_dec) /\ o_dec.val = o_in

(* C10: decode dispatches on the leading token that ends at the first      *)
(* space: blob, tree or commit only for exactly that token, and for every  *)
(* other token an "unsupported object type" error naming the token.        *)
DispatchByToken ==
    o_pc = "rawdecoded" =>
        LET tok == take_until(o_enc, SP)
        IN /\ decode_dispatch(o_enc) = "blob" => tok = blobTok
           /\ decode_dispatch(o_enc) = "tree" => tok = treeTok
           /\ decode_dispatch(o_enc) = "commit" => tok = commitTok
           /\ tok \notin {blobTok, treeTok, commitTok} =>
                 IsErr(o_dec) /\ o_dec.msg = "unsupported" /\ o_dec.val = tok

(* C2: a write_object never changes a file that exists, and a write of an  *)
(* object that an earlier call stored returns the same hash without error, *)
(* adds no file and leaves the bytes of the object's file as they were     *)
(* after the first write.                                                  *)
StoreStep ==
    /\ \A p \in DOMAIN s_files : p \in DOMAIN s_files' /\ s_files'[p] = s_files[p]
    /\ \A i, j \in 1..Len(s_log') :
          (i < j /\ s_log'[i].obj = s_log'[j].obj /\ IsOk(s_log'[i].result)) =>
              /\ s_log'[j].result = Ok(encode_sha(s_log'[i].obj))
              /\ s_log'[j].bytes = s_log'[i].bytes
              /\ Len(s_log'[j].bytes) = 1
              /\ s_log'[j].added = 0

StoreIdempotent == [][StoreStep]_vars

\* an object written twice, over a store that already held another client's file
StoreWitness ==
    /\ Len(s_log) >= 2
    /\ s_log[1].obj = s_log[2].obj
    /\ IsOk(s_log[1].result) /\ IsOk(s_log[2].result)
    /\ s_log[1].added = 1
    /\ \E p \in DOMAIN s_files : s_files[p] # <<>> /\ s_files[p][2] = 1

(* C4: apply_delta on a delta made of the two lengths and in-range         *)
(* instructions returns the concatenation of what the instructions name;   *)
(* it returns an error when the declared source length is not the length   *)
(* of the base, and when the output is not of the declared target length.  *)
DeltaReconstruction ==
    d_pc = "returned" =>
        LET want == Expected(d_base, d_prog.instrs)
        IN IF d_prog.source_len # Len(d_base)
           THEN IsErr(d_result) /\ d_result.msg = "wrong_source_length"
           ELSE IF d_prog.target_len # Len(want)
           THEN IsErr(d_result) /\ d_result.msg = "wrong_target_length"
           ELSE IsOk(d_result) /\ d_result.val = want

\* base "appel", COPY(offset 0, len 3) then INSERT("p"), gives "appp"
DeltaWitness ==
    /\ d_pc = "returned"
    /\ d_base = <<97, 112, 112, 101, 108>>
    /\ d_prog.instrs = <<Copy(0, 3, {4}), Insert(<<112>>)>>
    /\ IsOk(d_result)
    /\ d_result.val = <<97, 112, 112, 112>>

(* C3: when parse_pack reaches the end of a pack with a valid header and   *)
(* well-formed entries, it fails with the count-mismatch error if and only *)
(* if the number of entries read differs from the declared count; every    *)
(* entry read counts, whatever its type and whether or not its object      *)
(* equals an earlier one.                                                  *)
PackEntryCount ==
    (p_pc = "returned" /\ p_exit = "finish") =>
        ((IsErr(p_result) /\ p_result.msg = "wrong_count") <=> p_read # p_count)

(* C5: when fetch_ref fails (the response is rejected, or parse_pack fails *)
(* at the header, at any entry or at the count), what it returns is the    *)
(* failure of parse_pack and no mapping, pack_objects is never bound, and  *)
(* no object has been written to the store.                                *)
NoPartialImport ==
    (IsErr(f_result) \/ IsPanic(f_result)) =>
        /\ p_pc \in {"returned", "failed"}
        /\ p_exit # "" => f_result = p_result
        /\ c_objects = <<>> /\ c_done = {}
        /\ s_dirs = {} /\ s_files = <<>>

\* the clone has ended on a failure at an entry after one or more entries were
\* registered
NoPartialImportWitness ==
    /\ p_pc = "failed"
    /\ p_exit = "entry"
    /\ IsErr(p_result)
    /\ c_result = p_result
    /\ p_read >= 1
    /\ DOMAIN p_content_by_sha # {}
    /\ s_files = <<>>

(* C6: when parse_pack stops at an offset-delta entry whose start position *)
(* minus its offset is the start of no registered entry, or at a ref-delta *)
(* entry whose base hash is not in the hash table, it returns an error.    *)
DeltaBaseFailsCleanly ==
    (/\ p_pc = "returned"
     /\ p_exit = "entry"
     /\ p_i <= Len(p_pack)
     /\ IsOk(read_pack_object(SliceFrom(p_pack, p_i)))
     /\ \/ /\ read_pack_object(SliceFrom(p_pack, p_i)).val.type = 6
           /\ (p_i - read_pack_object(SliceFrom(p_pack, p_i)).val.offset)
                  \notin DOMAIN p_sha_by_byte_offset
        \/ /\ read_pack_object(SliceFrom(p_pack, p_i)).val.type = 7
           /\ read_pack_object(SliceFrom(p_pack, p_i)).val.sha
                  \notin DOMAIN p_content_by_sha)
    => IsErr(p_result)

(* C7: once fetch_ref has looked at the response, a response whose first 8 *)
(* bytes are not "0008NAK\n" (one shorter than 8 bytes too) has made it    *)
(* return the protocol error without a call of parse_pack, and for any     *)
(* other response parse_pack was given exactly the bytes after the first 8.*)
FetchRefRejects ==
    p_pc # "fetch" =>
        IF Len(n_response) >= 8 /\ Slice(n_response, 0, 8) = nakLine
        THEN p_pack = SliceFrom(n_response, 8)
        ELSE /\ IsErr(f_result) /\ f_result.msg = "no_nak"
             /\ p_pack = <<>> /\ p_exit = "" /\ p_result = None

(* C9: parse_pack called on an input whose first 8 bytes are not "PACK"    *)
(* and the version 2, whatever the length of the input, returns an error   *)
(* from the header check and reads no entry.                               *)
HeaderValidation ==
    (p_exit # "" /\ (Len(p_pack) < 8 \/ Slice(p_pack, 0, 8) # packMagic)) =>
        IsErr(p_result) /\ p_exit = "header" /\ p_read = 0

(* C8, as stated: for a body of a banner line, k lines "<sha-hex>          *)
(* <ref-name>" with or without a NUL and capabilities, and the flush line, *)
(* get_refs returns the k refs in line order, each with the complete       *)
(* sha-hex and the name without the capability suffix.                     *)
RefsOfPlainLines ==
    (r_pc = "returned" /\ r_fmt = "plain") =>
        r_result = Ok([k \in 1..Len(r_entries) |->
                          [sha |-> r_entries[k].sha, name |-> r_entries[k].name]])

(* C8, amended: the same for a body whose k lines are pkt-lines, each      *)
(* "<sha-hex> <ref-name>" with or without a NUL and capabilities after its *)
(* 4 hex digits of length, the first with or without the flush "0000"      *)
(* before them; lines after the first flush line contribute no ref.        *)
RefsOfPktLines ==
    (r_pc = "returned" /\ r_fmt \in {"pkt", "pkt_flush"}) =>
        r_result = Ok([k \in 1..Len(r_entries) |->
                          [sha |-> r_entries[k].sha, name |-> r_entries[k].name]])

\* two refs returned from a body whose first ref line follows the flush "0000"
\* and carries capabilities, with a ref line after the flush line
RefsWitness ==
    /\ r_pc = "returned"
    /\ r_fmt = "pkt_flush"
    /\ Len(r_entries) = 2
    /\ r_entries[1].caps # <<>>
    /\ r_entries[1].sha # r_entries[2].sha
    /\ Len(r_body) > Len(RefsBody(r_fmt, r_entries, <<>>))
    /\ IsOk(r_result)
    /\ Len(r_result.val) = 2
    /\ r_result.val[1].sha = r_entries[1].sha
    /\ r_result.val[2].name = r_entries[2].name

\* the number of decimal digits of n (up to 8)
DigitCount(n) == CHOOSE d \in 1..8 : n < 10 ^ d /\ (d > 1 => n >= 10 ^ (d - 1))

\* the line the tree listing has for an entry: the mode in decimal over 6 places
\* or more, the type by the mode's leading digit, the hash in lowercase hex
ListedLine(r) ==
    LET d == DigitCount(r.mode)
        w == IF d < 6 THEN 6 ELSE d
    IN [k \in 1..w |-> 48 + ((r.mode \div (10 ^ (w - k))) % 10)]
       \o <<SP>>
       \o (IF r.mode \div (10 ^ (d - 1)) = 1 THEN <<98, 108, 111, 98>>
           ELSE <<116, 114, 101, 101>>)
       \o <<SP>>
       \o [k \in 1..40 |->
             LET v == IF k % 2 = 1 THEN r.hash[(k + 1) \div 2] \div 16
                      ELSE r.hash[k \div 2] % 16
             IN <<48, 49, 50, 51, 52, 53, 54, 55, 56, 57, 97, 98, 99, 100, 101, 102>>[v + 1]]
       \o <<SP, SP, SP, SP>> \o r.name \o <<LF>>

RECURSIVE ListedLines(_)
ListedLines(refs) ==
    IF refs = <<>> THEN <<>> ELSE ListedLine(refs[1]) \o ListedLines(Tail(refs))

(* C11: Object::content on a Tree gives, per entry and in stored order,    *)
(* the line "<mode> <type> <hex hash>    <name>\n": the mode in decimal,   *)
(* zero-padded on the left to 6 digits or more, the type "blob" exactly    *)
(* when the leading digit of the unpadded mode is 1 and "tree" otherwise,  *)
(* the hash as 40 lowercase hex characters.                                *)
TreeRendering ==
    (t_pc = "rendered" /\ t_in.kind = "tree") =>
        IsOk(t_out) /\ t_out.val = ListedLines(t_in.refs)

\* modes 100644 and 40000 rendered as "100644 blob" and "040000 tree"
TreeRenderingWitness ==
    /\ t_pc = "rendered"
    /\ t_in.kind = "tree"
    /\ Len(t_in.refs) = 2
    /\ t_in.refs[1].mode = 100644
    /\ t_in.refs[2].mode = 40000
    /\ t_in.refs[2].hash[1] = 10
    /\ IsOk(t_out)
    /\ SubSeq(t_out.val, 1, 11) = <<49, 48, 48, 54, 52, 52, 32, 98, 108, 111, 98>>
    /\ SubSeq(t_out.val, 59, 69) = <<48, 52, 48, 48, 48, 48, 32, 116, 114, 101, 101>>

(* C12: for every offset byte sequence b0..bk of an offset-delta entry,    *)
(* all but the last with the high bit set, the value with which the base   *)
(* is located is v = b0 & 0x7f, then v = ((v + 1) << 7) | (b & 0x7f) for   *)
(* each further byte, and the base is looked up at the entry's start       *)
(* minus v: the base the writer put there is found and the delta applied,  *)
(* for offsets of one byte and of several.                                 *)
OffsetDecoding ==
    /\ (q_pc \in {"read", "located"} /\ IsOk(q_obj)) => q_obj.val.offset = OfsValue(q_ofs)
    /\ q_pc = "located" =>
          /\ IsOk(q_result)
          /\ q_start \in DOMAIN q_result.val.sha_by_byte_offset
          /\ q_result.val.sha_by_byte_offset[q_start] = encode_sha(Blob(<<97, 98>>))

\* the number of bits lo..hi set in the control byte c
FlagCount(c, lo, hi) == Cardinality({k \in lo..hi : Bit(c, k)})

\* the byte after the control byte that bit k of c flags, 0 when the bit is clear
FlaggedByte(c, bs, k) == IF Bit(c, k) THEN bs[1 + FlagCount(c, 0, k - 1)] ELSE 0

\* the copy offset: little-endian from the bytes flagged by bits 0-3
CopyOffset(c, bs) ==
    FlaggedByte(c, bs, 0) + 256 * FlaggedByte(c, bs, 1)
    + 65536 * FlaggedByte(c, bs, 2) + 16777216 * FlaggedByte(c, bs, 3)

\* the copy length: from the bytes flagged by bits 4-5, 65536 for 0
CopyLength(c, bs) ==
    IF FlaggedByte(c, bs, 4) + 256 * FlaggedByte(c, bs, 5) = 0 THEN 65536
    ELSE FlaggedByte(c, bs, 4) + 256 * FlaggedByte(c, bs, 5)

(* C13: in apply_delta every control byte from 128 to 255 is executed as a *)
(* copy, its offset assembled little-endian from the bytes flagged by bits *)
(* 0-3, its length from the bytes flagged by bits 4-5 with absent bytes    *)
(* counting 0 and an assembled length of 0 standing for 65536, and the     *)
(* cursor then advances by one plus the number of flagged bytes; a nonzero *)
(* control byte below 128 is an insert of (byte & 0x7f) literal bytes.     *)
(* Stated for the turns whose flagged bytes are all inside the buffer.     *)
CopySemantics ==
    (IsOk(x_last) /\ FlagCount(x_last.val.c, 0, 5) <= Len(x_last.val.bs)) =>
        /\ x_last.val.c >= 128 =>
              /\ IsOk(x_last.val.ins)
              /\ x_last.val.ins.val.kind = "copy"
              /\ x_last.val.ins.val.offset = CopyOffset(x_last.val.c, x_last.val.bs)
              /\ x_last.val.ins.val.len = CopyLength(x_last.val.c, x_last.val.bs)
              /\ IsOk(x_last.val.st) =>
                    x_last.val.st.val.i = x_last.val.i + 1 + FlagCount(x_last.val.c, 0, 5)
        /\ (0 < x_last.val.c /\ x_last.val.c < 128) =>
              /\ IsOk(x_last.val.ins)
              /\ x_last.val.ins.val.kind = "insert"
              /\ x_last.val.ins.val.len = x_last.val.c % 128

(* C16: apply_delta never reads outside the base payload or the delta      *)
(* buffer: for every delta buffer, a copy whose offset + length is past    *)
(* the base, a copy whose flagged bytes run past the end of the buffer and *)
(* an insert whose literal count runs past the end of the buffer all end   *)
(* in an error value returned to the caller, never in an abort.            *)
DeltaBoundsSafety ==
    x_pc = "returned" => (IsOk(x_result) \/ IsErr(x_result))

(* C14: for every payload p of an entry of type 1, 2 or 3 that the decoder *)
(* of its type accepts, the object parse_pack registers re-encodes to      *)
(* "<type> <len(p)>\0" followed by p, byte for byte, so the hash it is     *)
(* registered under is the hash of the transported bytes.                  *)
HashOfTransportedBytes ==
    (y_pc = "registered" /\ IsOk(y_result)) =>
        /\ 12 \in DOMAIN y_result.val.sha_by_byte_offset
        /\ y_result.val.sha_by_byte_offset[12] \in DOMAIN y_result.val.content_by_sha
        /\ encode_bytes(
              y_result.val.content_by_sha[y_result.val.sha_by_byte_offset[12]].object)
           = (IF y_type = 1 THEN commitTok ELSE IF y_type = 2 THEN treeTok ELSE blobTok)
             \o <<SP>> \o to_string(Len(y_p)) \o <<NUL>> \o y_p
        /\ y_result.val.sha_by_byte_offset[12]
           = get_sha((IF y_type = 1 THEN commitTok ELSE IF y_type = 2 THEN treeTok ELSE blobTok)
                     \o <<SP>> \o to_string(Len(y_p)) \o <<NUL>> \o y_p)

\* the position at which the k-th entry of a pack built from kinds starts
EntryStart(kinds, k) == 12 + Len(PackBody(SubSeq(kinds, 1, k - 1), 12, 12))

\* the two tables after a step of the clone
TableStep ==
    /\ DOMAIN p_content_by_sha \subseteq DOMAIN p_content_by_sha'
    /\ DOMAIN p_sha_by_byte_offset \subseteq DOMAIN p_sha_by_byte_offset'
    /\ \A pos \in DOMAIN p_sha_by_byte_offset' :
          /\ p_sha_by_byte_offset'[pos] \in DOMAIN p_content_by_sha'
          /\ pos >= 12
          /\ pos < p_i'
          /\ p_src' = "built" =>
                \E k \in 1..p_read' : p_kinds'[k] # "tag" /\ pos = EntryStart(p_kinds', k)

(* C15: in every state of the parse_pack loop each value of the            *)
(* offset-to-hash table is a key of the hash-to-(object, payload) table,   *)
(* each key of the offset table is the start position (12 or more) of an   *)
(* entry already processed that is not a tag and is below the current      *)
(* position i, and no step removes an entry from either table; so the      *)
(* lookup by hash after a hit in the offset table cannot fail.             *)
TableConsistency == [][TableStep]_vars

\* a blob and an offset-delta against it have both been registered
TableConsistencyWitness ==
    /\ p_pc = "loop"
    /\ p_kinds = <<"blob_a", "ofs_prev">>
    /\ p_read = 2
    /\ DOMAIN p_sha_by_byte_offset = {12, EntryStart(p_kinds, 2)}
    /\ p_sha_by_byte_offset[12] = encode_sha(Blob(<<97>>))
    /\ p_sha_by_byte_offset[EntryStart(p_kinds, 2)] = encode_sha(Blob(<<97, 98>>))
    /\ Cardinality(DOMAIN p_content_by_sha) = 2

====
